---------------------------- MODULE Spec2Model ----------------------------
(***************************************************************************)
(* Gesture model of react-timeseries-charts: the EventHandler component    *)
(* (pan, drag-zoom, wheel zoom, pinch zoom) and the Brush component        *)
(* (brush-body, overlay and handle drags).                                 *)
(*                                                                         *)
(* Times are epoch milliseconds (integers: a Date holds an integral time   *)
(* value, so getTime() of scale.invert(px) is truncated towards zero).     *)
(* Fractions (zoom scale, durations) are kept exact as numerators over a   *)
(* common denominator; IEEE rounding of the products is not modelled.      *)
(* JavaScript values that may be undefined / null / NaN are tagged         *)
(* records.  The y coordinate of positions is carried nowhere: no branch   *)
(* of the gesture code reads it.                                           *)
(***************************************************************************)
EXTENDS Integers, Sequences, FiniteSets, TLC

(***************************************************************************)
(* Bounds of the model                                                     *)
(***************************************************************************)
\* largest number of simultaneous touch points
MaxTouches == 3

\* props.width of the chart, in pixels
Width == 400
\* getElementOffset(rect).left: page position of the component's left edge
OffsetLeft == 10

\* pixel positions, relative to the component, at which pointer events occur
Xs == {0, 2, 3, 200}
\* page positions of pointer events
PageXs == {x + OffsetLeft : x \in Xs}
\* page positions of touch points
TouchXs == {OffsetLeft + 1, OffsetLeft + 3, OffsetLeft + 400}
\* page positions of a third or later finger, which no handler reads
\* while it is not among the first two
ExtraTouchXs == {OffsetLeft + 3}
\* wheel deltaY values
DeltaYs == {-2000, -60, 5000}
\* domains the container may give the time scale
Domains == {<<0, 400>>, <<120, 280>>}

(***************************************************************************)
(* JavaScript values                                                       *)
(***************************************************************************)
Undef == [t |-> "undefined"]
Null == [t |-> "null"]
NaN == [t |-> "NaN"]
Num(n) == [t |-> "number", v |-> n]
Bool(b) == [t |-> "boolean", v |-> b]
Str(s) == [t |-> "string", v |-> s]
\* an [x, y] position array
Arr(x) == [t |-> "array", v |-> x]

IsNum(j) == j.t = "number"

\* ToBoolean
Truthy(j) ==
    CASE j.t = "number" -> j.v # 0
      [] j.t = "boolean" -> j.v
      [] j.t = "array" -> TRUE
      [] OTHER -> FALSE

Abs(n) == IF n < 0 THEN -n ELSE n

\* integer part of a / b (b > 0), rounded towards zero as parseInt and
\* the Date constructor do
Trunc(a, b) == IF a >= 0 THEN a \div b ELSE -((-a) \div b)

(***************************************************************************)
(* The time scale: a linear map of [0, Width] onto the domain d            *)
(***************************************************************************)
\* scale.invert(px).getTime()
Invert(d, px) == Trunc(d[1] * Width + px * (d[2] - d[1]), Width)


(***************************************************************************)
(* Array.prototype.sort without a comparator: elements are compared as     *)
(* strings, by UTF-16 code unit                                            *)
(***************************************************************************)
RECURSIVE Digits(_)
\* code units of the decimal digits of n >= 0
Digits(n) == IF n < 10 THEN <<48 + n>> ELSE Append(Digits(n \div 10), 48 + (n % 10))

\* String(n): code units, "-" is 45
NumberToString(n) == IF n < 0 THEN <<45>> \o Digits(-n) ELSE Digits(n)

RECURSIVE StrLess(_, _)
\* s < t as strings
StrLess(s, t) ==
    IF t = <<>> THEN FALSE
    ELSE IF s = <<>> THEN TRUE
    ELSE IF Head(s) # Head(t) THEN Head(s) < Head(t)
    ELSE StrLess(Tail(s), Tail(t))

\* [a, b].sort()
SortPair(a, b) == IF StrLess(NumberToString(b), NumberToString(a)) THEN <<b, a>> ELSE <<a, b>>

(***************************************************************************)
(* EventHandler                                                            *)
(*                                                                         *)
(* A handler is an operator on a machine record m:                         *)
(*   m.st     this.state and the class field previousDiff                  *)
(*   m.doc    the listeners this instance has on document                  *)
(*   m.calls  the calls made so far by the handlers of the current event   *)
(* p is this.props, d the domain of props.scale.  An event e carries       *)
(* pageX / pageY (undefined on a TouchEvent), button and deltaY.           *)
(***************************************************************************)
\* this.state as the constructor leaves it; isDragging, initialDragZoom and
\* currentDragZoom are not set there
EHInitialState ==
    [isPinchZooming |-> FALSE, isPanning |-> FALSE,
     initialPanBegin |-> Null, initialPanEnd |-> Null, initialPanPosition |-> Null,
     isDragging |-> Undef, initialDragZoom |-> Undef, currentDragZoom |-> Undef,
     previousDiff |-> -1]

MouseEvent(x) == [pageX |-> Num(x), pageY |-> Num(0), button |-> 0, deltaY |-> 0]
TouchEvent == [pageX |-> Undef, pageY |-> Undef, button |-> 0, deltaY |-> 0]

Call(m, c) == [m EXCEPT !.calls = Append(@, c)]
ZoomCall(b, e) == [cb |-> "onZoom", begin |-> b, end |-> e]
ClickCall(x) == [cb |-> "onMouseClick", x |-> x]
MoveCall(x) == [cb |-> "onMouseMove", x |-> x]
TriggerCall(s) == [cb |-> "triggerZoom", scale |-> s]
PlainCall(name) == [cb |-> name]

\* a Date prop is an object, hence truthy whatever its time
HasDate(j) == j.t = "number"
\* ToNumber of a state field: null is 0
NumOf(j) == IF j.t = "number" THEN j.v ELSE 0

\* Math.round(e.pageX - offset.left)
getOffsetCentralPosition(e) ==
    IF IsNum(e.pageX) THEN Num(e.pageX.v - OffsetLeft) ELSE NaN

\* |a - b| > n on JS numbers: false when either is NaN
AbsDiffGreater(a, b, n) == IsNum(a) /\ IsNum(b) /\ Abs(a.v - b.v) > n

\* CapDuration that leaves the duration as it is
CapDuration_None(p, duration0, D) == duration0

\* if (minTime && maxTime) { if (duration > maxDuration) duration = maxDuration; }
\* durations are numerators over D
CapDuration(p, duration0, D) ==
    LET maxDuration == (NumOf(p.maxTime) - NumOf(p.minTime)) * D
    IN  IF HasDate(p.minTime) /\ HasDate(p.maxTime) /\ duration0 > maxDuration
        THEN maxDuration ELSE duration0

\* scale is in thousandths; fractions are numerators over D = 1000 * (end - begin)
triggerZoom(m, p, begin, end, center, scale) ==
    LET L == end - begin
        D == 1000 * L
        beginScaled0 == center - Trunc((center - begin) * scale, 1000)
        endScaled0 == center + Trunc((end - center) * scale, 1000)
        duration0 == L * L * scale
        expand == Truthy(p.minDuration) /\ L * scale < p.minDuration.v * 1000
        beginScaled1 == IF expand
                        THEN 1000 * (center * L - (center - begin) * p.minDuration.v)
                        ELSE beginScaled0 * D
        endScaled1 == IF expand
                      THEN 1000 * (center * L + (end - center) * p.minDuration.v)
                      ELSE endScaled0 * D
        duration == CapDuration(p, duration0, D)
        lo == HasDate(p.minTime) /\ beginScaled1 < p.minTime.v * D
        beginScaled2 == IF lo THEN p.minTime.v * D ELSE beginScaled1
        endScaled2 == IF lo THEN beginScaled2 + duration ELSE endScaled1
        hi == HasDate(p.maxTime) /\ endScaled2 > p.maxTime.v * D
        endScaled3 == IF hi THEN p.maxTime.v * D ELSE endScaled2
        beginScaled3 == IF hi THEN endScaled3 - duration ELSE beginScaled2
        m1 == Call(m, TriggerCall(scale))
    IN  IF p.onZoom THEN Call(m1, ZoomCall(Trunc(beginScaled3, D), Trunc(endScaled3, D)))
        ELSE m1

StartListeners == {"mouseover", "mouseup", "touchmove", "touchend"}

handleUserInteractionStart(m, p, d, e) ==
    LET offsetxy == getOffsetCentralPosition(e)
        m1 == [m EXCEPT !.doc = @ \cup StartListeners]
        m2 == IF p.enableDragZoom
              THEN [m1 EXCEPT !.st.isDragging = Bool(TRUE),
                              !.st.initialDragZoom = offsetxy,
                              !.st.currentDragZoom = offsetxy]
              ELSE m1
    IN  IF p.enablePanZoom
        THEN [m2 EXCEPT !.st.isPanning = TRUE,
                        !.st.initialPanBegin = Num(d[1]),
                        !.st.initialPanEnd = Num(d[2]),
                        !.st.initialPanPosition = Arr(e.pageX.v)]
        ELSE m2

\* PanClamp moving only the edge that crossed its bound
PanClamp_NoShift(p, newBegin0, newEnd0, duration) ==
    <<IF HasDate(p.minTime) /\ newBegin0 < p.minTime.v THEN p.minTime.v ELSE newBegin0,
      IF HasDate(p.maxTime) /\ newEnd0 > p.maxTime.v THEN p.maxTime.v ELSE newEnd0>>

\* PanClamp without the maxTime clamp
PanClamp_MinOnly(p, newBegin0, newEnd0, duration) ==
    IF HasDate(p.minTime) /\ newBegin0 < p.minTime.v
    THEN <<p.minTime.v, p.minTime.v + duration>>
    ELSE <<newBegin0, newEnd0>>

\* the min/max clamp of a pan: <<newBegin, newEnd>>
PanClamp(p, newBegin0, newEnd0, duration) ==
    LET lo == HasDate(p.minTime) /\ newBegin0 < p.minTime.v
        newBegin1 == IF lo THEN p.minTime.v ELSE newBegin0
        newEnd1 == IF lo THEN newBegin1 + duration ELSE newEnd0
        hi == HasDate(p.maxTime) /\ newEnd1 > p.maxTime.v
        newEnd2 == IF hi THEN p.maxTime.v ELSE newEnd1
        newBegin2 == IF hi THEN newEnd2 - duration ELSE newBegin1
    IN  <<newBegin2, newEnd2>>

\* handleUserInteractionMove without the guard on undefined coordinates:
\* Math.round(undefined) is NaN
handleUserInteractionMove_NoGuard(m, p, d, e) ==
    LET offsetxy == getOffsetCentralPosition(e)
        m1 == IF Truthy(m.st.isDragging)
              THEN [m EXCEPT !.st.currentDragZoom = offsetxy] ELSE m
    IN  IF m.st.isPanning
        THEN IF e.pageX = Undef \/ e.pageY = Undef
             THEN (IF p.onZoom THEN Call(m1, ZoomCall(NaN, NaN)) ELSE m1)
             ELSE LET xy0 == m.st.initialPanPosition.v
                      timeOffset == Invert(d, e.pageX.v) - Invert(d, xy0)
                      newBegin == NumOf(m.st.initialPanBegin) - timeOffset
                      newEnd == NumOf(m.st.initialPanEnd) - timeOffset
                      duration == NumOf(m.st.initialPanEnd) - NumOf(m.st.initialPanBegin)
                      r == PanClamp(p, newBegin, newEnd, duration)
                  IN  IF p.onZoom THEN Call(m1, ZoomCall(r[1], r[2])) ELSE m1
        ELSE IF p.onMouseMove THEN Call(m1, MoveCall(offsetxy))
        ELSE m1

handleUserInteractionMove(m, p, d, e) ==
    IF e.pageX = Undef \/ e.pageY = Undef THEN m
    ELSE
    LET offsetxy == getOffsetCentralPosition(e)
        m1 == IF Truthy(m.st.isDragging)
              THEN [m EXCEPT !.st.currentDragZoom = offsetxy] ELSE m
    IN  IF m.st.isPanning
        THEN LET xy0 == m.st.initialPanPosition.v
                 timeOffset == Invert(d, e.pageX.v) - Invert(d, xy0)
                 newBegin == NumOf(m.st.initialPanBegin) - timeOffset
                 newEnd == NumOf(m.st.initialPanEnd) - timeOffset
                 duration == NumOf(m.st.initialPanEnd) - NumOf(m.st.initialPanBegin)
                 r == PanClamp(p, newBegin, newEnd, duration)
             IN  IF p.onZoom THEN Call(m1, ZoomCall(r[1], r[2])) ELSE m1
        ELSE IF p.onMouseMove THEN Call(m1, MoveCall(offsetxy))
        ELSE m1

\* the release of a drag-zoom: <<begin, end>> of the emitted range
DragZoomRange(p, d, initialDragZoom, currentDragZoom) ==
    LET start == Invert(d, initialDragZoom)
        end == Invert(d, currentDragZoom)
        newBegin == IF HasDate(p.minTime) /\ start < p.minTime.v THEN p.minTime.v ELSE start
        newEnd == IF HasDate(p.maxTime) /\ end > p.maxTime.v THEN p.maxTime.v ELSE end
    IN  SortPair(newBegin, newEnd)

\* the threshold of a real pan / drag, in pixels
DragThreshold == 2

\* handleUserInteractionEnd that leaves the listeners on document
handleUserInteractionEnd_KeepListeners(m, p, d, e) ==
    LET offsetxy == getOffsetCentralPosition(e)
        isPanning == Truthy(m.st.initialPanPosition)
                     /\ AbsDiffGreater(e.pageX, Num(m.st.initialPanPosition.v), DragThreshold)
        isDragging == Truthy(m.st.initialDragZoom)
                      /\ AbsDiffGreater(offsetxy, m.st.initialDragZoom, DragThreshold)
        m0 == m
        m1 == IF p.onMouseMove /\ ~isPanning /\ ~isDragging
              THEN Call(m0, MoveCall(offsetxy)) ELSE m0
        m2 == IF p.onMouseClick /\ ~isPanning /\ ~isDragging
              THEN Call(m1, ClickCall(offsetxy)) ELSE m1
        m3 == IF p.enableDragZoom /\ isDragging /\ p.onZoom
              THEN LET r == DragZoomRange(p, d, m.st.initialDragZoom.v,
                                          m.st.currentDragZoom.v)
                   IN  Call(m2, ZoomCall(r[1], r[2]))
              ELSE m2
        m4 == IF p.enableDragZoom
              THEN [m3 EXCEPT !.st.isDragging = Bool(FALSE),
                              !.st.initialDragZoom = Null,
                              !.st.initialPanEnd = Null,
                              !.st.currentDragZoom = Null]
              ELSE m3
    IN  IF p.enablePanZoom
        THEN [m4 EXCEPT !.st.isPanning = FALSE,
                        !.st.initialPanBegin = Null,
                        !.st.initialPanEnd = Null,
                        !.st.initialPanPosition = Null]
        ELSE m4

handleUserInteractionEnd(m, p, d, e) ==
    LET offsetxy == getOffsetCentralPosition(e)
        isPanning == Truthy(m.st.initialPanPosition)
                     /\ AbsDiffGreater(e.pageX, Num(m.st.initialPanPosition.v), DragThreshold)
        isDragging == Truthy(m.st.initialDragZoom)
                      /\ AbsDiffGreater(offsetxy, m.st.initialDragZoom, DragThreshold)
        m0 == [m EXCEPT !.doc = @ \ StartListeners]
        m1 == IF p.onMouseMove /\ ~isPanning /\ ~isDragging
              THEN Call(m0, MoveCall(offsetxy)) ELSE m0
        m2 == IF p.onMouseClick /\ ~isPanning /\ ~isDragging
              THEN Call(m1, ClickCall(offsetxy)) ELSE m1
        m3 == IF p.enableDragZoom /\ isDragging /\ p.onZoom
              THEN LET r == DragZoomRange(p, d, m.st.initialDragZoom.v,
                                          m.st.currentDragZoom.v)
                   IN  Call(m2, ZoomCall(r[1], r[2]))
              ELSE m2
        m4 == IF p.enableDragZoom
              THEN [m3 EXCEPT !.st.isDragging = Bool(FALSE),
                              !.st.initialDragZoom = Null,
                              !.st.initialPanEnd = Null,
                              !.st.currentDragZoom = Null]
              ELSE m3
    IN  IF p.enablePanZoom
        THEN [m4 EXCEPT !.st.isPanning = FALSE,
                        !.st.initialPanBegin = Null,
                        !.st.initialPanEnd = Null,
                        !.st.initialPanPosition = Null]
        ELSE m4

\* the wheel scale factor is 0.001 per unit of deltaY
WheelScale(deltaY) == 1000 + deltaY
\* the pinch scale factor is 0.01 per pixel
PinchScale(zoomDiff) == 1000 + zoomDiff * 10

\* ClampScale without the lower bound
ClampScale_NoFloor(scale) == IF scale > 3000 THEN 3000 ELSE scale

\* if (scale > 3) scale = 3; if (scale < 0.1) scale = 0.1;
ClampScale(scale) ==
    LET s1 == IF scale > 3000 THEN 3000 ELSE scale
    IN  IF s1 < 100 THEN 100 ELSE s1

\* handleScrollWheel without the test of the enable props
handleScrollWheel_NoGate(m, p, d, e) ==
    LET scale == ClampScale(WheelScale(e.deltaY))
        xy == getOffsetCentralPosition(e)
    IN  triggerZoom(m, p, d[1], d[2], Invert(d, xy.v), scale)

handleScrollWheel(m, p, d, e) ==
    IF ~p.enablePanZoom /\ ~p.enableDragZoom THEN m
    ELSE LET scale == ClampScale(WheelScale(e.deltaY))
             xy == getOffsetCentralPosition(e)
         IN  triggerZoom(m, p, d[1], d[2], Invert(d, xy.v), scale)

handleMouseDown(m, p, d, e) ==
    IF ~p.enablePanZoom /\ ~p.enableDragZoom THEN m
    ELSE IF e.button = 2 THEN m
    ELSE handleUserInteractionStart(m, p, d, e)

handleMouseUp(m, p, d, e) ==
    IF ~p.onMouseClick /\ ~p.enablePanZoom /\ ~p.enableDragZoom THEN m
    ELSE handleUserInteractionEnd(m, p, d, e)

handleMouseMove(m, p, d, e) == handleUserInteractionMove(m, p, d, e)

\* touches: the pageX of the active touch points, in order
handleTouchStart(m, p, d, touches) ==
    IF Len(touches) > 1
    THEN LET m1 == IF p.onPinchZoomStart /\ ~m.st.isPinchZooming
                   THEN Call([m EXCEPT !.st.isPinchZooming = TRUE],
                             PlainCall("onPinchZoomStart"))
                   ELSE m
         IN  handleUserInteractionEnd(m1, p, d, TouchEvent)
    ELSE IF Len(touches) = 1
    THEN IF ~p.enablePanZoom /\ ~p.enableDragZoom THEN m
         ELSE handleUserInteractionStart(m, p, d, MouseEvent(touches[1]))
    ELSE m

\* clientX and pageX of a touch differ by the scroll position, which the
\* distance of two touches does not depend on
handleTouchMove(m, p, d, touches) ==
    IF Len(touches) >= 2
    THEN LET curDiff == Abs(touches[1] - touches[2])
             m1 == IF m.st.previousDiff > 0
                   THEN LET zoomDiff == m.st.previousDiff - curDiff
                            scale == ClampScale(PinchScale(zoomDiff))
                            xy == getOffsetCentralPosition(MouseEvent(touches[1]))
                        IN  triggerZoom(m, p, d[1], d[2], Invert(d, xy.v), scale)
                   ELSE m
         IN  [m1 EXCEPT !.st.previousDiff = curDiff]
    ELSE IF Len(touches) = 1
    THEN handleUserInteractionMove(m, p, d, MouseEvent(touches[1]))
    ELSE m

\* handleTouchDone that leaves previousDiff as it is
handleTouchDone_NoReset(m, p, d, touches) ==
    LET m1 == IF p.onPinchZoomEnd /\ m.st.isPinchZooming
              THEN Call([m EXCEPT !.st.isPinchZooming = FALSE],
                        PlainCall("onPinchZoomEnd"))
              ELSE m
    IN  IF Len(touches) < 2
        THEN handleUserInteractionEnd(m1, p, d, TouchEvent)
        ELSE m1

handleTouchDone(m, p, d, touches) ==
    LET m1 == IF p.onPinchZoomEnd /\ m.st.isPinchZooming
              THEN Call([m EXCEPT !.st.isPinchZooming = FALSE],
                        PlainCall("onPinchZoomEnd"))
              ELSE m
    IN  IF Len(touches) < 2
        THEN handleUserInteractionEnd([m1 EXCEPT !.st.previousDiff = -1], p, d, TouchEvent)
        ELSE m1

(***************************************************************************)
(* Brush                                                                   *)
(*                                                                         *)
(* Handlers are operators on a machine record as above; tr is              *)
(* props.timeRange (Null or a range), d the domain of props.timeScale,     *)
(* whose pixel range is [0, Width], pageX a page position.                 *)
(***************************************************************************)
Range(b, e) == [t |-> "range", b |-> b, e |-> e]

\* this.state as the constructor leaves it
BrushInitialState ==
    [isBrushing |-> FALSE, brushingInitializationSite |-> Undef,
     initialBrushBeginTime |-> Undef, initialBrushEndTime |-> Undef,
     initialBrushXYPosition |-> Undef]

RangeCall(b, e) == [cb |-> "onTimeRangeChanged", begin |-> b, end |-> e]

\* [invert(0), invert(width)]
viewport(d) == <<Invert(d, 0), Invert(d, Width)>>

startBrushInteraction(m, tr, pageX) ==
    [m EXCEPT !.doc = @ \cup {"mouseup", "touchend"},
              !.st = [isBrushing |-> TRUE,
                      brushingInitializationSite |-> Str("brush"),
                      initialBrushBeginTime |-> Num(tr.b),
                      initialBrushEndTime |-> Num(tr.e),
                      initialBrushXYPosition |-> Arr(pageX)]]

startOverlayBrushInteraction(m, d, pageX) ==
    LET t == Invert(d, pageX - OffsetLeft)
    IN  [m EXCEPT !.doc = @ \cup {"mouseup", "touchend"},
                  !.st = [isBrushing |-> TRUE,
                          brushingInitializationSite |-> Str("overlay"),
                          initialBrushBeginTime |-> Num(t),
                          initialBrushEndTime |-> Num(t),
                          initialBrushXYPosition |-> Null]]

BrushListeners == {"mouseover", "mouseup", "touchmove", "touchend"}

\* endBrushInteraction that removes the listeners and keeps this.state
endBrushInteraction_KeepState(m) == [m EXCEPT !.doc = @ \ BrushListeners]

endBrushInteraction(m) ==
    [m EXCEPT !.doc = @ \ BrushListeners,
              !.st = [isBrushing |-> FALSE,
                      brushingInitializationSite |-> Null,
                      initialBrushBeginTime |-> Null,
                      initialBrushEndTime |-> Null,
                      initialBrushXYPosition |-> Null]]

\* handle is "handle-left" or "handle-right"
startHandleInteraction(m, tr, handle, pageX) ==
    [m EXCEPT !.doc = @ \cup BrushListeners,
              !.st = [isBrushing |-> TRUE,
                      brushingInitializationSite |-> Str(handle),
                      initialBrushBeginTime |-> Num(tr.b),
                      initialBrushEndTime |-> Num(tr.e),
                      initialBrushXYPosition |-> Arr(pageX)]]

\* OverlayRange without the viewport
OverlayRange_NoClamp(d, tb, pageX) ==
    LET t == Invert(d, pageX - OffsetLeft)
    IN  IF t < tb THEN <<t, tb>> ELSE <<tb, t>>

\* the range of an overlay drag: <<newBegin, newEnd>>
OverlayRange(d, tb, pageX) ==
    LET vp == viewport(d)
        t == Invert(d, pageX - OffsetLeft)
    IN  IF t < tb
        THEN <<IF t < vp[1] THEN vp[1] ELSE t, IF tb > vp[2] THEN vp[2] ELSE tb>>
        ELSE <<IF tb < vp[1] THEN vp[1] ELSE tb, IF t > vp[2] THEN vp[2] ELSE t>>

\* SwapIfNeeded that never swaps
SwapIfNeeded_Never(newBegin, newEnd) == <<newBegin, newEnd>>

\* if (newBegin > newEnd) [newBegin, newEnd] = [newEnd, newBegin]
SwapIfNeeded(newBegin, newEnd) ==
    IF newBegin > newEnd THEN <<newEnd, newBegin>> ELSE <<newBegin, newEnd>>

\* DragRange moving both edges whatever the site
DragRange_BothEdges(d, site, tb, te, xy0, xy) ==
    LET vp == viewport(d)
        timeOffset == Invert(d, xy0) - Invert(d, xy)
        startOffsetConstraint == IF tb - timeOffset < vp[1] THEN tb - vp[1] ELSE timeOffset
        endOffsetConstrain == IF te - timeOffset > vp[2] THEN te - vp[2] ELSE timeOffset
    IN  SwapIfNeeded(tb - startOffsetConstraint, te - endOffsetConstrain)

\* the range of a brush-body or handle drag: <<newBegin, newEnd>>
DragRange(d, site, tb, te, xy0, xy) ==
    LET vp == viewport(d)
        timeOffset == Invert(d, xy0) - Invert(d, xy)
        startOffsetConstraint == IF tb - timeOffset < vp[1] THEN tb - vp[1] ELSE timeOffset
        endOffsetConstrain == IF te - timeOffset > vp[2] THEN te - vp[2] ELSE timeOffset
        newBegin == IF site \in {"brush", "handle-left"}
                    THEN tb - startOffsetConstraint ELSE tb
        newEnd == IF site \in {"brush", "handle-right"}
                  THEN te - endOffsetConstrain ELSE te
    IN  SwapIfNeeded(newBegin, newEnd)

timeRangeUpdateCheck(m, bp, d, pageX) ==
    IF m.st.isBrushing
    THEN LET tb == m.st.initialBrushBeginTime.v
             te == m.st.initialBrushEndTime.v
             r == IF m.st.brushingInitializationSite = Str("overlay")
                  THEN OverlayRange(d, tb, pageX)
                  ELSE DragRange(d, m.st.brushingInitializationSite.v, tb, te,
                                 m.st.initialBrushXYPosition.v, pageX)
         IN  IF bp.onTimeRangeChanged THEN Call(m, RangeCall(r[1], r[2])) ELSE m
    ELSE m

\* handleMouseUp and handleTouchEnd of the Brush
BrushHandleMouseUp(m) == endBrushInteraction(m)

\* handleMouseMove and handleTouchMove of the Brush
BrushHandleMouseMove(m, bp, d, pageX) == timeRangeUpdateCheck(m, bp, d, pageX)

handleClick(m, bp) ==
    IF bp.allowSelectionClear /\ bp.onTimeRangeChanged
    THEN Call(m, PlainCall("onTimeRangeChanged(null)")) ELSE m

\* props.handleSize, in pixels
HandleSize == 6

\* TimeRange.disjoint
Disjoint(vp, tr) == vp[2] < tr.b \/ vp[1] > tr.e

\* BrushVisible that looks at timeRange only
BrushVisible_NullOnly(d, tr) == tr # Null

\* renderBrush / renderHandles draw something
BrushVisible(d, tr) == tr # Null /\ ~Disjoint(viewport(d), tr)

\* The rectangles of renderBrush and renderHandles, in pixels times L, L
\* being the length of the domain: timeScale(t) = (t - d[1]) * Width / L
BrushGeometry(d, tr) ==
    LET vp == viewport(d)
        L == d[2] - d[1]
        begin == IF tr.b > vp[1] THEN tr.b ELSE vp[1]
        end == IF tr.e < vp[2] THEN tr.e ELSE vp[2]
        x == (begin - d[1]) * Width
        endPos == (end - d[1]) * Width
        width == IF endPos - x < L THEN L ELSE endPos - x
    IN  [x |-> x, width |-> width, L |-> L]

\* what renderBrush returns: an empty group or the brush rect
renderBrush(d, tr) ==
    IF BrushVisible(d, tr)
    THEN LET g == BrushGeometry(d, tr)
         IN  [tag |-> "rect", x |-> g.x, width |-> g.width, L |-> g.L]
    ELSE [tag |-> "g"]

\* what renderHandles returns: an empty group or the two handle rects
renderHandles(d, tr) ==
    IF BrushVisible(d, tr)
    THEN LET g == BrushGeometry(d, tr)
         IN  [tag |-> "handles", L |-> g.L,
              left |-> [x |-> g.x - g.L, width |-> HandleSize * g.L],
              right |-> [x |-> g.x + g.width - HandleSize * g.L,
                         width |-> (HandleSize + 1) * g.L]]
    ELSE [tag |-> "g"]

\* pixel px lies on a rect r whose x and width are in pixels times L
OnRect(r, L, px) == px * L >= r.x /\ px * L <= r.x + r.width

\* the element under a pointer at pixel px of the component: the handles
\* are drawn over the brush, the right one last, all over the overlay
HitTest(d, tr, px) ==
    LET b == renderBrush(d, tr)
        h == renderHandles(d, tr)
    IN  IF h.tag = "handles" /\ OnRect(h.right, h.L, px) THEN "handle-right"
        ELSE IF h.tag = "handles" /\ OnRect(h.left, h.L, px) THEN "handle-left"
        ELSE IF b.tag = "rect" /\ OnRect(b, b.L, px) THEN "brush"
        ELSE "overlay"

\* the press handler of the element under the pointer: handleBrushMouseDown
\* / handleOverlayMouseDown / handleHandleMouseDown and their touch twins
BrushPress(m, d, tr, pageX) ==
    LET site == HitTest(d, tr, pageX - OffsetLeft)
    IN  CASE site = "brush" -> startBrushInteraction(m, tr, pageX)
          [] site = "overlay" -> startOverlayBrushInteraction(m, d, pageX)
          [] site = "handle-left" -> startHandleInteraction(m, tr, "handle-left", pageX)
          [] site = "handle-right" -> startHandleInteraction(m, tr, "handle-right", pageX)

(***************************************************************************)
(* State                                                                   *)
(***************************************************************************)
VARIABLES
    props,        \* EventHandler: this.props (fixed for the life of the instance)
    scaleDomain,  \* EventHandler: props.scale.domain(), as the container set it
    ehPhase,      \* EventHandler: "constructed", "mounted" or "unmounted"
    eh,           \* EventHandler: this.state and previousDiff
    ehEl,         \* EventHandler: listeners added to its own element
    ehDoc,        \* EventHandler: listeners added to document
    touches,      \* pageX of the touch points now on the component, in order
    ev,           \* the event handled last (n: the touch points before it)
    calls,        \* the calls made while handling it
    gest,         \* the pointer gesture in progress or ended by the last event
    bprops,       \* Brush: allowSelectionClear, isPinchZooming, onTimeRangeChanged
    bTimeRange,   \* Brush: props.timeRange
    bScale,       \* Brush: the domain of props.timeScale
    bPhase,       \* Brush: "constructed", "mounted" or "unmounted"
    brush,        \* Brush: this.state
    brushDoc,     \* Brush: listeners added to document
    bTouch,       \* Brush: a finger that was put on the brush is down
    bgest         \* Brush: the gesture in progress or ended by the last event

\* The pointer is the mouse or fingers, never both at once: mouse events
\* occur while no finger is down, and the first finger is put down while
\* no mouse gesture is in progress.

ehVars == <<props, scaleDomain, ehPhase, eh, ehEl, ehDoc, touches, gest>>
brushVars == <<bprops, bTimeRange, bScale, bPhase, brush, brushDoc, bTouch, bgest>>
vars == <<ehVars, brushVars, ev, calls>>

\* the configured time bounds, in ms
MinTime == 100
MaxTime == 300
MinDuration == 150

\* the configurations of minTime / maxTime / minDuration
Limits ==
    {[minTime |-> Undef, maxTime |-> Undef, minDuration |-> Undef],
     [minTime |-> Num(MinTime), maxTime |-> Undef, minDuration |-> Undef],
     [minTime |-> Undef, maxTime |-> Num(MaxTime), minDuration |-> Num(MinDuration)],
     [minTime |-> Num(MinTime), maxTime |-> Num(MaxTime), minDuration |-> Undef],
     [minTime |-> Num(MinTime), maxTime |-> Num(MaxTime), minDuration |-> Num(MinDuration)]}

\* the configurations of the optional pinch callbacks
PinchCallbacks ==
    {[onPinchZoomStart |-> TRUE, onPinchZoomEnd |-> TRUE],
     [onPinchZoomStart |-> TRUE, onPinchZoomEnd |-> FALSE]}

EHProps ==
    {[enablePanZoom |-> pan, enableDragZoom |-> drag,
      minTime |-> l.minTime, maxTime |-> l.maxTime, minDuration |-> l.minDuration,
      onZoom |-> TRUE, onMouseMove |-> TRUE, onMouseClick |-> TRUE,
      onPinchZoomStart |-> c.onPinchZoomStart, onPinchZoomEnd |-> c.onPinchZoomEnd] :
        pan \in BOOLEAN, drag \in BOOLEAN, l \in Limits, c \in PinchCallbacks}

\* phase: "none", "active" (pressed, not released) or "ended" (the last event
\* released it); pressX: where it was pressed; panZoomed: a move of it
\* called onZoom; pinched: a second finger joined it; pinchMoved: a finger
\* moved since the touch count last rose to two
NoGesture == [phase |-> "none", pressX |-> 0, via |-> "none",
              panZoomed |-> FALSE, pinched |-> FALSE, pinchMoved |-> FALSE]

Machine == [st |-> eh, doc |-> ehDoc, calls |-> <<>>]

\* the number of calls of callback cb in a call sequence
RECURSIVE Count(_, _)
Count(cs, cb) ==
    IF cs = <<>> THEN 0
    ELSE (IF Head(cs).cb = cb THEN 1 ELSE 0) + Count(Tail(cs), cb)

Commit(m) ==
    /\ eh' = m.st
    /\ ehDoc' = m.doc
    /\ calls' = m.calls

\* the release of the pointer
GestureEnded ==
    IF gest.phase = "active" THEN [gest EXCEPT !.phase = "ended"] ELSE NoGesture

\* an event that neither moves nor releases the pointer
GestureKept == IF gest.phase = "ended" THEN NoGesture ELSE gest

\* a move of the pointer of the gesture in progress
GestureMoved(m) ==
    IF gest.phase = "active"
    THEN [gest EXCEPT !.panZoomed = @ \/ Count(m.calls, "onZoom") > 0]
    ELSE GestureKept

\* site: the element pressed; pressX: the page position of the press;
\* moved: a move of the gesture called onTimeRangeChanged; cancelled: the
\* system cancelled the last gesture and nothing was pressed or released since
NoBrushGesture == [phase |-> "none", site |-> "none", via |-> "none",
                   pressX |-> 0, moved |-> FALSE, cancelled |-> FALSE]

\* a Brush that is never mounted
BrushIdle ==
    /\ bprops = [allowSelectionClear |-> FALSE, isPinchZooming |-> Undef,
                 onTimeRangeChanged |-> TRUE]
    /\ bTimeRange = Null
    /\ bScale = <<0, 400>>
    /\ bPhase = "constructed"
    /\ brush = BrushInitialState
    /\ brushDoc = {}
    /\ bTouch = FALSE
    /\ bgest = NoBrushGesture

EHInit ==
    /\ BrushIdle
    /\ props \in EHProps
    /\ scaleDomain \in Domains
    /\ ehPhase = "constructed"
    /\ eh = EHInitialState
    /\ ehEl = {}
    /\ ehDoc = {}
    /\ touches = <<>>
    /\ ev = [type |-> "none", x |-> Undef]
    /\ calls = <<>>
    /\ gest = NoGesture

TouchListeners == {"touchstart", "touchmove", "touchend", "touchcancel"}

componentDidMount ==
    /\ ehPhase = "constructed"
    /\ ehPhase' = "mounted"
    /\ ehEl' = {"wheel"} \cup (IF props.enableDragZoom \/ props.enablePanZoom
                               THEN TouchListeners ELSE {})
    /\ ev' = [type |-> "mount", x |-> Undef]
    /\ calls' = <<>>
    /\ UNCHANGED <<props, scaleDomain, eh, ehDoc, touches, gest>>
    /\ UNCHANGED brushVars

componentWillUnmount ==
    /\ ehPhase = "mounted"
    /\ ehPhase' = "unmounted"
    /\ ehEl' = {}
    /\ ev' = [type |-> "unmount", x |-> Undef]
    /\ calls' = <<>>
    /\ gest' = GestureKept
    /\ UNCHANGED <<props, scaleDomain, eh, ehDoc, touches>>
    /\ UNCHANGED brushVars

\* the container renders the chart with another time range
SetScale ==
    /\ ehPhase = "mounted"
    /\ \E d \in Domains : d # scaleDomain /\ scaleDomain' = d
    /\ ev' = [type |-> "render", x |-> Undef]
    /\ calls' = <<>>
    /\ gest' = GestureKept
    /\ UNCHANGED <<props, ehPhase, eh, ehEl, ehDoc, touches>>
    /\ UNCHANGED brushVars

\* mousedown on the component (React onMouseDown)
MouseDown ==
    /\ ehPhase = "mounted"
    /\ touches = <<>>
    /\ \E x \in PageXs, button \in {0, 2} :
        LET e == [MouseEvent(x) EXCEPT !.button = button]
            m == handleMouseDown(Machine, props, scaleDomain, e)
        IN  /\ Commit(m)
            /\ ev' = [type |-> "mousedown", x |-> Num(x)]
            /\ gest' = IF (props.enablePanZoom \/ props.enableDragZoom) /\ button # 2
                       THEN [NoGesture EXCEPT !.phase = "active", !.pressX = x,
                                              !.via = "mouse"]
                       ELSE GestureKept
    /\ UNCHANGED <<props, scaleDomain, ehPhase, ehEl, touches>>
    /\ UNCHANGED brushVars

\* the move events without coordinates: Android delivers a mousemove
\* without pageX / pageY during a touch sequence
MalformedMoves ==
    {[MouseEvent(0) EXCEPT !.pageX = Undef, !.pageY = Undef],
     [MouseEvent(0) EXCEPT !.pageX = Undef],
     [MouseEvent(200 + OffsetLeft) EXCEPT !.pageY = Undef]}

\* mousemove on the component (React onMouseMove); the event logged has
\* x undefined if it came without pageX or pageY
MouseMove ==
    /\ ehPhase = "mounted"
    /\ touches = <<>>
    /\ \E e \in {MouseEvent(x) : x \in PageXs} \cup MalformedMoves :
        LET m == handleMouseMove(Machine, props, scaleDomain, e)
        IN  /\ Commit(m)
            /\ ev' = [type |-> "mousemove",
                      x |-> IF e \in MalformedMoves THEN Undef ELSE e.pageX]
            /\ gest' = IF e \in MalformedMoves THEN GestureKept ELSE GestureMoved(m)
    /\ UNCHANGED <<props, scaleDomain, ehPhase, ehEl, touches>>
    /\ UNCHANGED brushVars

\* mouseover anywhere in the document, outside the component
DocMouseOver ==
    /\ touches = <<>>
    /\ "mouseover" \in ehDoc
    /\ \E x \in PageXs :
        LET m == handleMouseMove(Machine, props, scaleDomain, MouseEvent(x))
        IN  /\ Commit(m)
            /\ ev' = [type |-> "mouseover", x |-> Num(x)]
            /\ gest' = GestureMoved(m)
    /\ UNCHANGED <<props, scaleDomain, ehPhase, ehEl, touches>>
    /\ UNCHANGED brushVars

\* mouseup on the component: React onMouseUp, then the document listener
\* if it is still registered
MouseUp ==
    /\ ehPhase = "mounted"
    /\ touches = <<>>
    /\ \E x \in PageXs :
        LET m1 == handleMouseUp(Machine, props, scaleDomain, MouseEvent(x))
            m2 == IF "mouseup" \in m1.doc
                  THEN handleMouseUp(m1, props, scaleDomain, MouseEvent(x)) ELSE m1
        IN  /\ Commit(m2)
            /\ ev' = [type |-> "mouseup", x |-> Num(x)]
    /\ gest' = GestureEnded
    /\ UNCHANGED <<props, scaleDomain, ehPhase, ehEl, touches>>
    /\ UNCHANGED brushVars

\* mouseup outside the component: the document listener only
DocMouseUp ==
    /\ touches = <<>>
    /\ "mouseup" \in ehDoc
    /\ \E x \in PageXs :
        LET m == handleMouseUp(Machine, props, scaleDomain, MouseEvent(x))
        IN  /\ Commit(m)
            /\ ev' = [type |-> "mouseup", x |-> Num(x)]
    /\ gest' = GestureEnded
    /\ UNCHANGED <<props, scaleDomain, ehPhase, ehEl, touches>>
    /\ UNCHANGED brushVars

Wheel ==
    /\ touches = <<>>
    /\ "wheel" \in ehEl
    /\ \E x \in PageXs, deltaY \in DeltaYs :
        LET e == [MouseEvent(x) EXCEPT !.deltaY = deltaY]
            m == handleScrollWheel(Machine, props, scaleDomain, e)
        IN  /\ Commit(m)
            /\ ev' = [type |-> "wheel", x |-> Num(x)]
    /\ gest' = GestureKept
    /\ UNCHANGED <<props, scaleDomain, ehPhase, ehEl, touches>>
    /\ UNCHANGED brushVars

\* a finger is put on the component: the element's touchstart listener
TouchStart ==
    /\ ehPhase = "mounted"
    /\ touches = <<>> => gest.phase # "active"
    /\ Len(touches) < MaxTouches
    /\ \E x \in (IF Len(touches) < 2 THEN TouchXs ELSE ExtraTouchXs) :
        LET ts == Append(touches, x)
            m == IF "touchstart" \in ehEl
                 THEN handleTouchStart(Machine, props, scaleDomain, ts) ELSE Machine
        IN  /\ touches' = ts
            /\ Commit(m)
            /\ ev' = [type |-> "touchstart", x |-> Num(x), n |-> Len(touches)]
            /\ gest' = IF "touchstart" \notin ehEl THEN GestureKept
                       ELSE IF Len(ts) = 1
                       THEN [NoGesture EXCEPT !.phase = "active", !.pressX = x,
                                              !.via = "touch"]
                       ELSE [gest EXCEPT !.pinched = TRUE]
    /\ UNCHANGED <<props, scaleDomain, ehPhase, ehEl>>
    /\ UNCHANGED brushVars

\* a finger moves: the element's touchmove listener, then the document's
\* (handleMouseMove, given the TouchEvent)
TouchMove ==
    /\ ehPhase = "mounted"
    /\ \E i \in 1..Len(touches), x \in TouchXs :
        LET ts == [touches EXCEPT ![i] = x]
            m1 == IF "touchmove" \in ehEl
                  THEN handleTouchMove(Machine, props, scaleDomain, ts) ELSE Machine
            m2 == IF "touchmove" \in m1.doc
                  THEN handleMouseMove(m1, props, scaleDomain, TouchEvent) ELSE m1
        IN  /\ x # touches[i]
            /\ touches' = ts
            /\ Commit(m2)
            /\ ev' = [type |-> "touchmove", x |-> Num(x), n |-> Len(touches)]
            /\ gest' = IF Len(ts) = 1 THEN GestureMoved(m2)
                       ELSE IF "touchmove" \in ehEl
                       THEN [GestureKept EXCEPT !.pinchMoved = TRUE]
                       ELSE GestureKept
    /\ UNCHANGED <<props, scaleDomain, ehPhase, ehEl>>
    /\ UNCHANGED brushVars

RemoveAt(s, i) == [j \in 1..(Len(s) - 1) |-> IF j < i THEN s[j] ELSE s[j + 1]]

\* a finger is lifted: the element's touchend listener, then the document's
\* (handleMouseUp, given the TouchEvent) if it is still registered
TouchEnd ==
    /\ ehPhase = "mounted"
    /\ \E i \in 1..Len(touches) :
        LET ts == RemoveAt(touches, i)
            m1 == IF "touchend" \in ehEl
                  THEN handleTouchDone(Machine, props, scaleDomain, ts) ELSE Machine
            m2 == IF "touchend" \in m1.doc
                  THEN handleMouseUp(m1, props, scaleDomain, TouchEvent) ELSE m1
        IN  /\ touches' = ts
            /\ Commit(m2)
            /\ ev' = [type |-> "touchend", x |-> Num(touches[i]), n |-> Len(touches)]
            /\ gest' = IF Len(ts) = 0 THEN GestureEnded
                       ELSE IF Len(ts) = 1
                       THEN [GestureKept EXCEPT !.pinchMoved = FALSE]
                       ELSE GestureKept
    /\ UNCHANGED <<props, scaleDomain, ehPhase, ehEl>>
    /\ UNCHANGED brushVars

\* the system cancels a touch: the element's touchcancel listener; there
\* is no touchcancel listener on document
TouchCancel ==
    /\ ehPhase = "mounted"
    /\ \E i \in 1..Len(touches) :
        LET ts == RemoveAt(touches, i)
            m == IF "touchcancel" \in ehEl
                 THEN handleTouchDone(Machine, props, scaleDomain, ts) ELSE Machine
        IN  /\ touches' = ts
            /\ Commit(m)
            /\ ev' = [type |-> "touchcancel", x |-> Num(touches[i]), n |-> Len(touches)]
            /\ gest' = IF Len(ts) = 0 THEN GestureEnded
                       ELSE IF Len(ts) = 1
                       THEN [GestureKept EXCEPT !.pinchMoved = FALSE]
                       ELSE GestureKept
    /\ UNCHANGED <<props, scaleDomain, ehPhase, ehEl>>
    /\ UNCHANGED brushVars

Next ==
    \/ componentDidMount
    \/ componentWillUnmount
    \/ SetScale
    \/ MouseDown
    \/ MouseMove
    \/ DocMouseOver
    \/ MouseUp
    \/ DocMouseUp
    \/ Wheel
    \/ TouchStart
    \/ TouchMove
    \/ TouchEnd
    \/ TouchCancel

Spec == EHInit /\ [][Next]_vars

(***************************************************************************)
(* The Brush as a state machine                                            *)
(***************************************************************************)
\* pixel positions, relative to the component, of pointer events
BXs == {-40, 100, 150, 200, 300, 400, 440}
\* those on the component
BInside == {x \in BXs : x >= 0 /\ x <= Width}
\* the time ranges the container may give the brush
TimeRanges == {Null, Range(100, 200), Range(280, 500), Range(500, 600)}

BProps ==
    [allowSelectionClear : BOOLEAN,
     isPinchZooming : {Undef, Bool(FALSE), Bool(TRUE)},
     onTimeRangeChanged : {TRUE}]

\* an EventHandler that is never mounted
EHIdle ==
    /\ props = [enablePanZoom |-> FALSE, enableDragZoom |-> FALSE,
                minTime |-> Undef, maxTime |-> Undef, minDuration |-> Undef,
                onZoom |-> TRUE, onMouseMove |-> TRUE, onMouseClick |-> TRUE,
                onPinchZoomStart |-> TRUE, onPinchZoomEnd |-> TRUE]
    /\ scaleDomain = <<0, 400>>
    /\ ehPhase = "constructed"
    /\ eh = EHInitialState
    /\ ehEl = {}
    /\ ehDoc = {}
    /\ touches = <<>>
    /\ gest = NoGesture

BrushInit ==
    /\ EHIdle
    /\ bprops \in BProps
    /\ bTimeRange \in TimeRanges
    /\ bScale \in Domains
    /\ bPhase = "constructed"
    /\ brush = BrushInitialState
    /\ brushDoc = {}
    /\ bTouch = FALSE
    /\ bgest = NoBrushGesture
    /\ ev = [type |-> "none", x |-> Undef]
    /\ calls = <<>>

BrushMachine == [st |-> brush, doc |-> brushDoc, calls |-> <<>>]

BrushCommit(m) ==
    /\ brush' = m.st
    /\ brushDoc' = m.doc
    /\ calls' = m.calls

\* a release of the pointer
BrushGestureEnded ==
    IF bgest.phase = "active" THEN [bgest EXCEPT !.phase = "ended"] ELSE NoBrushGesture

\* the system takes the pointer away
BrushGestureCancelled ==
    IF bgest.phase = "active"
    THEN [bgest EXCEPT !.phase = "ended", !.cancelled = TRUE]
    ELSE [NoBrushGesture EXCEPT !.cancelled = bgest.cancelled]

BrushGestureKept ==
    IF bgest.phase = "ended"
    THEN [NoBrushGesture EXCEPT !.cancelled = bgest.cancelled]
    ELSE bgest

\* a move of the pointer
BrushGestureMoved(m) ==
    IF bgest.phase = "active"
    THEN [bgest EXCEPT !.moved = @ \/ Count(m.calls, "onTimeRangeChanged") > 0]
    ELSE BrushGestureKept

\* the touch handlers are attached only if (props.isPinchZooming === false)
TouchHandlersAttached == bprops.isPinchZooming = Bool(FALSE)

BrushDidMount ==
    /\ bPhase = "constructed"
    /\ bPhase' = "mounted"
    /\ ev' = [type |-> "mount", x |-> Undef]
    /\ calls' = <<>>
    /\ UNCHANGED <<bprops, bTimeRange, bScale, brush, brushDoc, bTouch, bgest>>
    /\ UNCHANGED ehVars

BrushWillUnmount ==
    /\ bPhase = "mounted"
    /\ bPhase' = "unmounted"
    /\ ev' = [type |-> "unmount", x |-> Undef]
    /\ calls' = <<>>
    /\ bgest' = BrushGestureKept
    /\ UNCHANGED <<bprops, bTimeRange, bScale, brush, brushDoc, bTouch>>
    /\ UNCHANGED ehVars

\* the container renders the brush with another time range
BrushSetTimeRange ==
    /\ bPhase = "mounted"
    /\ \E tr \in TimeRanges : tr # bTimeRange /\ bTimeRange' = tr
    /\ ev' = [type |-> "render", x |-> Undef]
    /\ calls' = <<>>
    /\ bgest' = BrushGestureKept
    /\ UNCHANGED <<bprops, bScale, bPhase, brush, brushDoc, bTouch>>
    /\ UNCHANGED ehVars

\* the container renders the brush with another time scale
BrushSetScale ==
    /\ bPhase = "mounted"
    /\ \E d \in Domains : d # bScale /\ bScale' = d
    /\ ev' = [type |-> "render", x |-> Undef]
    /\ calls' = <<>>
    /\ bgest' = BrushGestureKept
    /\ UNCHANGED <<bprops, bTimeRange, bPhase, brush, brushDoc, bTouch>>
    /\ UNCHANGED ehVars

\* mousedown on the overlay, the brush or a handle
BrushMouseDown ==
    /\ bPhase = "mounted"
    /\ ~bTouch
    /\ \E x \in BInside :
        LET m == BrushPress(BrushMachine, bScale, bTimeRange, x + OffsetLeft)
        IN  /\ BrushCommit(m)
            /\ ev' = [type |-> "mousedown", x |-> Num(x + OffsetLeft)]
            /\ bgest' = [phase |-> "active", site |-> HitTest(bScale, bTimeRange, x),
                         via |-> "mouse", pressX |-> x + OffsetLeft, moved |-> FALSE,
                         cancelled |-> FALSE]
    /\ UNCHANGED <<bprops, bTimeRange, bScale, bPhase, bTouch>>
    /\ UNCHANGED ehVars

\* a finger is put on the overlay, the brush or a handle: onTouchStart of
\* that element, which it has only if (props.isPinchZooming === false)
BrushTouchStart ==
    /\ bPhase = "mounted"
    /\ ~bTouch
    /\ bgest.phase # "active"
    /\ \E x \in BInside :
        LET m == IF TouchHandlersAttached
                 THEN BrushPress(BrushMachine, bScale, bTimeRange, x + OffsetLeft)
                 ELSE BrushMachine
        IN  /\ BrushCommit(m)
            /\ ev' = [type |-> "touchstart", x |-> Num(x + OffsetLeft)]
            /\ bgest' = IF TouchHandlersAttached
                        THEN [phase |-> "active", site |-> HitTest(bScale, bTimeRange, x),
                              via |-> "touch", pressX |-> x + OffsetLeft, moved |-> FALSE,
                              cancelled |-> FALSE]
                        ELSE BrushGestureKept
    /\ bTouch' = TRUE
    /\ UNCHANGED <<bprops, bTimeRange, bScale, bPhase>>
    /\ UNCHANGED ehVars

\* mousemove on the component (React onMouseMove of the group)
BrushMouseMove ==
    /\ bPhase = "mounted"
    /\ ~bTouch
    /\ \E x \in BInside :
        LET m == BrushHandleMouseMove(BrushMachine, bprops, bScale, x + OffsetLeft)
        IN  /\ BrushCommit(m)
            /\ ev' = [type |-> "mousemove", x |-> Num(x + OffsetLeft)]
            /\ bgest' = BrushGestureMoved(m)
    /\ UNCHANGED <<bprops, bTimeRange, bScale, bPhase, bTouch>>
    /\ UNCHANGED ehVars

\* mouseover anywhere in the document, on or outside the component
BrushDocMouseOver ==
    /\ "mouseover" \in brushDoc
    /\ ~bTouch
    /\ \E x \in BXs :
        LET m == BrushHandleMouseMove(BrushMachine, bprops, bScale, x + OffsetLeft)
        IN  /\ BrushCommit(m)
            /\ ev' = [type |-> "mouseover", x |-> Num(x + OffsetLeft)]
            /\ bgest' = BrushGestureMoved(m)
    /\ UNCHANGED <<bprops, bTimeRange, bScale, bPhase, bTouch>>
    /\ UNCHANGED ehVars

\* the finger moves: React onTouchMove of the group, then the document's
\* touchmove listener if a handle drag registered it
BrushTouchMove ==
    /\ bPhase = "mounted"
    /\ bTouch
    /\ \E x \in BXs :
        LET m1 == IF TouchHandlersAttached
                  THEN BrushHandleMouseMove(BrushMachine, bprops, bScale, x + OffsetLeft)
                  ELSE BrushMachine
            m2 == IF "touchmove" \in m1.doc
                  THEN BrushHandleMouseMove(m1, bprops, bScale, x + OffsetLeft)
                  ELSE m1
        IN  /\ BrushCommit(m2)
            /\ ev' = [type |-> "touchmove", x |-> Num(x + OffsetLeft)]
            /\ bgest' = BrushGestureMoved(m2)
    /\ UNCHANGED <<bprops, bTimeRange, bScale, bPhase, bTouch>>
    /\ UNCHANGED ehVars

\* the browser dispatches click to the overlay after a mouseup on it, if
\* the button was pressed on it as well, wherever the pointer went between;
\* the overlay has onClick only if (props.isPinchZooming === false)
OverlayClicked(x) ==
    /\ bgest.phase = "active" /\ bgest.via = "mouse" /\ bgest.site = "overlay"
    /\ HitTest(bScale, bTimeRange, x) = "overlay"
    /\ TouchHandlersAttached

\* mouseup on the component: onMouseUp of the element under the pointer,
\* then the document's mouseup listener if it is still registered, then
\* the click the mouseup completes
BrushMouseUp ==
    /\ bPhase = "mounted"
    /\ ~bTouch
    /\ \E x \in BInside :
        LET m1 == BrushHandleMouseUp(BrushMachine)
            m2 == IF "mouseup" \in m1.doc THEN BrushHandleMouseUp(m1) ELSE m1
            m3 == IF OverlayClicked(x) THEN handleClick(m2, bprops) ELSE m2
        IN  /\ BrushCommit(m3)
            /\ ev' = [type |-> "mouseup", x |-> Num(x + OffsetLeft)]
    /\ bgest' = BrushGestureEnded
    /\ UNCHANGED <<bprops, bTimeRange, bScale, bPhase, bTouch>>
    /\ UNCHANGED ehVars

\* mouseup outside the component: the document's listener only
BrushDocMouseUp ==
    /\ "mouseup" \in brushDoc
    /\ ~bTouch
    /\ \E x \in BXs \ BInside :
        /\ BrushCommit(BrushHandleMouseUp(BrushMachine))
        /\ ev' = [type |-> "mouseup", x |-> Num(x + OffsetLeft)]
    /\ bgest' = BrushGestureEnded
    /\ UNCHANGED <<bprops, bTimeRange, bScale, bPhase, bTouch>>
    /\ UNCHANGED ehVars

\* the finger is lifted: onTouchEnd of the element it was put on, then the
\* document's touchend listener if it is still registered
BrushTouchEnd ==
    /\ bTouch
    /\ LET m1 == IF bPhase = "mounted" /\ TouchHandlersAttached
                 THEN BrushHandleMouseUp(BrushMachine) ELSE BrushMachine
           m2 == IF "touchend" \in m1.doc THEN BrushHandleMouseUp(m1) ELSE m1
       IN  BrushCommit(m2)
    /\ ev' = [type |-> "touchend", x |-> Undef]
    /\ bTouch' = FALSE
    /\ bgest' = BrushGestureEnded
    /\ UNCHANGED <<bprops, bTimeRange, bScale, bPhase>>
    /\ UNCHANGED ehVars

\* the system cancels the touch: no element of the Brush has a touchcancel
\* handler and none is added to document
BrushTouchCancel ==
    /\ bTouch
    /\ BrushCommit(BrushMachine)
    /\ ev' = [type |-> "touchcancel", x |-> Undef]
    /\ bTouch' = FALSE
    /\ bgest' = BrushGestureCancelled
    /\ UNCHANGED <<bprops, bTimeRange, bScale, bPhase>>
    /\ UNCHANGED ehVars

BrushNext ==
    \/ BrushDidMount
    \/ BrushWillUnmount
    \/ BrushSetTimeRange
    \/ BrushSetScale
    \/ BrushMouseDown
    \/ BrushTouchStart
    \/ BrushMouseMove
    \/ BrushDocMouseOver
    \/ BrushTouchMove
    \/ BrushMouseUp
    \/ BrushDocMouseUp
    \/ BrushTouchEnd
    \/ BrushTouchCancel

BrushSpec == BrushInit /\ [][BrushNext]_vars

(***************************************************************************)
(* Properties of EventHandler                                              *)
(***************************************************************************)
\* the onZoom calls of the last event
ZoomCalls == {i \in DOMAIN calls : calls[i].cb = "onZoom"}
ClickCalls == {i \in DOMAIN calls : calls[i].cb = "onMouseClick"}
TriggerCalls == {i \in DOMAIN calls : calls[i].cb = "triggerZoom"}

\* the last event was a move handled as a pan
PanMoved ==
    /\ ev.type \in {"mousemove", "mouseover", "touchmove"}
    /\ eh.isPanning
    /\ TriggerCalls = {}
    /\ ZoomCalls # {}

PanDuration == NumOf(eh.initialPanEnd) - NumOf(eh.initialPanBegin)

\* C1: every range a pan move passes to onZoom is as long as the range
\* captured at the press, whether or not the minTime / maxTime clamp applied
C1_PanPreservesDuration ==
    PanMoved => \A i \in ZoomCalls : calls[i].end - calls[i].begin = PanDuration

\* a pan move whose range was clamped at minTime and differs from the initial one
C1_Witness ==
    /\ PanMoved
    /\ \E i \in ZoomCalls :
        /\ HasDate(props.minTime) /\ calls[i].begin = props.minTime.v
        /\ calls[i].begin # NumOf(eh.initialPanBegin)

\* C2: with minDuration set, every range triggerZoom emits is at least
\* minDuration long
C2_DurationFloor ==
    (TriggerCalls # {} /\ Truthy(props.minDuration)) =>
        \A i \in ZoomCalls : calls[i].end - calls[i].begin >= props.minDuration.v

\* the last event released a single-pointer gesture
Released ==
    /\ ev.type \in {"mouseup", "touchend"}
    /\ gest.phase = "ended"
    /\ ~gest.pinched

\* net horizontal movement between press and release, in pixels
NetMovement == Abs(ev.x.v - gest.pressX)

\* C3: a press / release with net movement < 2 calls onMouseClick with the
\* release position and calls onZoom neither on the moves nor on the release
C3_SmallMovementIsClick ==
    (Released /\ NetMovement < 2) =>
        /\ props.onMouseClick =>
             \E i \in ClickCalls : calls[i].x = Num(ev.x.v - OffsetLeft)
        /\ ZoomCalls = {}
        /\ ~gest.panZoomed

\* C4: a press / release with net movement >= 2 does not call onMouseClick,
\* and with enableDragZoom the release calls onZoom
C4_RealDragIsNoClick ==
    (Released /\ NetMovement >= 2) =>
        /\ ClickCalls = {}
        /\ props.enableDragZoom => ZoomCalls # {}

\* C7: every range a pan move emits lies within minTime / maxTime
C7_PanWithinBounds ==
    PanMoved => \A i \in ZoomCalls :
        /\ HasDate(props.minTime) => calls[i].begin >= props.minTime.v
        /\ HasDate(props.maxTime) => calls[i].end <= props.maxTime.v

\* the window fits between the configured bounds
PanFits ==
    (HasDate(props.minTime) /\ HasDate(props.maxTime))
        => PanDuration <= props.maxTime.v - props.minTime.v

\* C7 (amended): every range a pan move emits ends at or before maxTime,
\* and begins at or after minTime unless maxTime is set as well and the
\* window is longer than maxTime - minTime
C7_PanWithinBoundsIfFits ==
    PanMoved => \A i \in ZoomCalls :
        /\ HasDate(props.maxTime) => calls[i].end <= props.maxTime.v
        /\ (HasDate(props.minTime) /\ PanFits) => calls[i].begin >= props.minTime.v

\* a pan of a window that fits, clamped at maxTime and shifted
C7_Witness ==
    /\ PanMoved
    /\ HasDate(props.minTime) /\ HasDate(props.maxTime) /\ PanFits
    /\ \E i \in ZoomCalls :
        /\ calls[i].end = props.maxTime.v
        /\ calls[i].end # NumOf(eh.initialPanEnd)

\* C8: the scale every wheel event and pinch move passes to triggerZoom is
\* within [0.1, 3.0]
C8_ScaleClamped ==
    \A i \in TriggerCalls : calls[i].scale >= 100 /\ calls[i].scale <= 3000

\* a pinch move whose scale was clamped at 0.1
C8_Witness ==
    /\ ev.type = "touchmove"
    /\ \E i \in TriggerCalls : calls[i].scale = 100

\* C9: at most one of isPanning, isDragging, isPinchZooming is true
C9_SingleActiveGesture ==
    Cardinality({f \in {"pan", "drag", "pinch"} :
                    \/ f = "pan" /\ eh.isPanning
                    \/ f = "drag" /\ Truthy(eh.isDragging)
                    \/ f = "pinch" /\ eh.isPinchZooming}) <= 1

(***************************************************************************)
(* Properties of Brush                                                     *)
(***************************************************************************)
RangeCalls == {i \in DOMAIN calls : calls[i].cb = "onTimeRangeChanged"}

\* the last event was a move of a brush-body or handle drag
BrushDragged ==
    /\ ev.type \in {"mousemove", "mouseover", "touchmove"}
    /\ brush.isBrushing
    /\ brush.brushingInitializationSite \in
         {Str("brush"), Str("handle-left"), Str("handle-right")}
    /\ RangeCalls # {}

\* where the drag would put the begin / end edge without the viewport
BrushTimeOffset ==
    Invert(bScale, brush.initialBrushXYPosition.v) - Invert(bScale, ev.x.v)
RawBegin == brush.initialBrushBeginTime.v - BrushTimeOffset
RawEnd == brush.initialBrushEndTime.v - BrushTimeOffset
MovesBegin == brush.brushingInitializationSite \in {Str("brush"), Str("handle-left")}
MovesEnd == brush.brushingInitializationSite \in {Str("brush"), Str("handle-right")}

\* C5: every range a brush-body or handle drag emits lies within the
\* viewport, and an edge dragged beyond a viewport bound equals that bound
C5_BrushWithinViewport ==
    BrushDragged => \A i \in RangeCalls :
        LET vp == viewport(bScale)
        IN  /\ vp[1] <= calls[i].begin
            /\ calls[i].end <= vp[2]
            /\ (MovesBegin /\ RawBegin < vp[1]) => calls[i].begin = vp[1]
            /\ (MovesEnd /\ RawEnd > vp[2]) => calls[i].end = vp[2]

\* C6: every range a brush-body or handle drag emits has begin <= end
C6_BrushSwap ==
    BrushDragged => \A i \in RangeCalls : calls[i].begin <= calls[i].end

\* the left handle dragged past the right edge: the initial end is emitted
\* as the begin
C6_Witness ==
    /\ BrushDragged
    /\ brush.brushingInitializationSite = Str("handle-left")
    /\ \E i \in RangeCalls :
        /\ calls[i].begin = brush.initialBrushEndTime.v
        /\ calls[i].end > calls[i].begin

\* the last event ended a pointer gesture
Terminating == ev.type \in {"mouseup", "touchend", "touchcancel"}

\* C10: once mouse-up, touch-end or touch-cancel has ended a gesture, the
\* component has no listener left on document
C10_ListenersReleased ==
    /\ (Terminating /\ gest.phase = "ended") => ehDoc = {}
    /\ (Terminating /\ bgest.phase = "ended") => brushDoc = {}

\* the EventHandler half of C10
EHListenersReleased == (Terminating /\ gest.phase = "ended") => ehDoc = {}


(***************************************************************************)
(* Teardown and document-level tracking                                    *)
(***************************************************************************)
\* no flag of this.state is set and no field holds a captured value
\* (undefined, as the constructor leaves the drag fields, counts as unset)
EHInactive ==
    /\ ~eh.isPanning /\ ~Truthy(eh.isDragging) /\ ~eh.isPinchZooming
    /\ \A f \in {"initialPanBegin", "initialPanEnd", "initialPanPosition",
                 "initialDragZoom", "currentDragZoom"} : eh[f] \in {Null, Undef}
    /\ eh.previousDiff = -1

\* C11: after componentWillUnmount the instance has no listener on document
\* and its gesture state is inactive, also when it is unmounted between a
\* press and the release
C11_UnmountReleases ==
    /\ (ev.type = "unmount" /\ ehPhase = "unmounted") => (ehDoc = {} /\ EHInactive)
    /\ (ev.type = "unmount" /\ bPhase = "unmounted") => (brushDoc = {} /\ ~brush.isBrushing)

\* C12: from the press to the release of a Brush gesture, whatever its
\* initiation site, the move and the up / end listeners are on document
C12_BrushDocumentTracking ==
    (bgest.phase = "active" /\ brush.isBrushing) => BrushListeners \subseteq brushDoc

(***************************************************************************)
(* Pinch notifications                                                     *)
(***************************************************************************)
\* the last event was a touch event given to the element's touch listeners
TouchEventHandled ==
    /\ ev.type \in {"touchstart", "touchmove", "touchend", "touchcancel"}
    /\ "touchstart" \in ehEl

\* C13: a touch event calls onPinchZoomStart once if it takes the number of
\* touch points from fewer than 2 to 2 or more, and not otherwise; it calls
\* onPinchZoomEnd once if it takes it from 2 or more to fewer than 2, and
\* not otherwise
C13_PinchNotifications ==
    TouchEventHandled =>
        LET enter == ev.n < 2 /\ Len(touches) >= 2
            leave == ev.n >= 2 /\ Len(touches) < 2
        IN  /\ props.onPinchZoomStart =>
                 Count(calls, "onPinchZoomStart") = (IF enter THEN 1 ELSE 0)
            /\ props.onPinchZoomEnd =>
                 Count(calls, "onPinchZoomEnd") = (IF leave THEN 1 ELSE 0)


(***************************************************************************)
(* Drag-zoom                                                               *)
(***************************************************************************)
\* the last event released a drag-zoom and emitted its range
DragZoomReleased == Released /\ props.enableDragZoom /\ ZoomCalls # {}

\* C14: the range a drag-zoom release emits begins at or after minTime and
\* ends at or before maxTime, whichever way the pointer was dragged
C14_DragZoomWithinBounds ==
    DragZoomReleased => \A i \in ZoomCalls :
        /\ HasDate(props.minTime) => calls[i].begin >= props.minTime.v
        /\ HasDate(props.maxTime) => calls[i].end <= props.maxTime.v

\* C15: the range a drag-zoom release emits has begin <= end
C15_DragZoomOrdered ==
    DragZoomReleased => \A i \in ZoomCalls : calls[i].begin <= calls[i].end


(***************************************************************************)
(* Zoom bounds                                                             *)
(***************************************************************************)
\* C16: with minTime and maxTime both set, every range triggerZoom emits
\* (wheel or pinch, with or without minDuration) lies within
\* [minTime, maxTime], hence is no longer than maxTime - minTime
C16_ZoomWithinBounds ==
    (TriggerCalls # {} /\ HasDate(props.minTime) /\ HasDate(props.maxTime)) =>
        \A i \in ZoomCalls :
            /\ props.minTime.v <= calls[i].begin
            /\ calls[i].end <= props.maxTime.v
            /\ calls[i].end - calls[i].begin <= props.maxTime.v - props.minTime.v

\* a zoom out of a window that reached beyond both bounds: the emitted
\* range is exactly [minTime, maxTime]
C16_Witness ==
    /\ TriggerCalls # {} /\ HasDate(props.minTime) /\ HasDate(props.maxTime)
    /\ \E i \in TriggerCalls : calls[i].scale > 1000
    /\ scaleDomain[1] < props.minTime.v /\ scaleDomain[2] > props.maxTime.v
    /\ \E i \in ZoomCalls :
        calls[i].begin = props.minTime.v /\ calls[i].end = props.maxTime.v


(***************************************************************************)
(* Reset at the end of a gesture                                           *)
(***************************************************************************)
\* the last event ended a gesture: a mouse-up, or a touch-end / touch-cancel
\* that left fewer than 2 touch points
GestureEndingEvent ==
    \/ ev.type = "mouseup"
    \/ ev.type \in {"touchend", "touchcancel"} /\ Len(touches) < 2

\* C17: after a gesture-ending event this.state and previousDiff are back at
\* the inactive defaults, whatever props enable and whichever optional
\* callbacks are given
C17_ResetAtGestureEnd == GestureEndingEvent => EHInactive

\* C17 for an instance that has onPinchZoomEnd whenever it has onPinchZoomStart
ResetAtGestureEndWithPinchEnd ==
    (props.onPinchZoomStart => props.onPinchZoomEnd) => C17_ResetAtGestureEnd


(***************************************************************************)
(* Brush: click-to-clear, overlay drags, rendering                         *)
(***************************************************************************)
\* the onTimeRangeChanged(null) calls of the last event
NullCalls == {i \in DOMAIN calls : calls[i].cb = "onTimeRangeChanged(null)"}

\* C18: onTimeRangeChanged(null) is called only with allowSelectionClear,
\* and only by the release on the overlay of a press on the overlay none
\* of whose moves emitted a range
C18_ClearOnlyOnStillClick ==
    NullCalls # {} =>
        /\ bprops.allowSelectionClear
        /\ bgest.phase = "ended" /\ bgest.site = "overlay"
        /\ ~bgest.moved

\* the part of C18 about allowSelectionClear and the overlay
ClearOnlyIfAllowed ==
    NullCalls # {} =>
        /\ bprops.allowSelectionClear
        /\ ev.type = "mouseup" /\ bgest.phase = "ended" /\ bgest.site = "overlay"

\* a click on the overlay that cleared the selection
ClearOnlyIfAllowed_Witness ==
    NullCalls # {} /\ ~bgest.moved /\ ev.x = Num(bgest.pressX)

\* the last event was a move of an overlay drag
OverlayDragged ==
    /\ ev.type \in {"mousemove", "mouseover", "touchmove"}
    /\ brush.isBrushing
    /\ brush.brushingInitializationSite = Str("overlay")
    /\ RangeCalls # {}

Min(a, b) == IF a < b THEN a ELSE b
Max(a, b) == IF a > b THEN a ELSE b

\* the time under the pointer of the last event
CursorTime == Invert(bScale, ev.x.v - OffsetLeft)

\* C19: every move of an overlay drag with anchor t and cursor time t' emits
\* [max(viewport.begin, min(t, t')), min(viewport.end, max(t, t'))]
C19_OverlayDragResult ==
    OverlayDragged => \A i \in RangeCalls :
        LET vp == viewport(bScale)
            t == brush.initialBrushBeginTime.v
        IN  /\ calls[i].begin = Max(vp[1], Min(t, CursorTime))
            /\ calls[i].end = Min(vp[2], Max(t, CursorTime))

\* an overlay drag taken to the left of the viewport: the range runs from
\* the viewport's begin to the anchor
C19_Witness ==
    /\ OverlayDragged
    /\ CursorTime < viewport(bScale)[1]
    /\ \E i \in RangeCalls :
        /\ calls[i].begin = viewport(bScale)[1]
        /\ calls[i].end = brush.initialBrushBeginTime.v
        /\ calls[i].begin < calls[i].end

\* timeScale(t), in pixels times the length of the domain
ScaleTimesL(d, t) == (t - d[1]) * Width

\* C20: renderBrush and renderHandles return an empty group, and every
\* press lands on the overlay, if timeRange is null or disjoint from the
\* viewport; otherwise the brush rect begins at the later of the two begins
\* and ends at the earlier of the two ends, or 1 pixel after its begin if
\* that is further
C20_BrushRendering ==
    bPhase = "mounted" =>
        LET vp == viewport(bScale)
            tr == bTimeRange
            b == renderBrush(bScale, tr)
            h == renderHandles(bScale, tr)
            L == bScale[2] - bScale[1]
        IN  IF tr = Null \/ tr.e < vp[1] \/ tr.b > vp[2]
            THEN /\ b.tag = "g" /\ h.tag = "g"
                 /\ \A x \in BInside : HitTest(bScale, tr, x) = "overlay"
            ELSE /\ b.tag = "rect" /\ h.tag = "handles"
                 /\ b.x = ScaleTimesL(bScale, Max(tr.b, vp[1]))
                 /\ b.x + b.width = Max(ScaleTimesL(bScale, Min(tr.e, vp[2])), b.x + L)
                 /\ b.width >= L

\* a press on the body of a brush whose time range begins before the
\* viewport: the rect begins at pixel 0
C20_Witness ==
    /\ bgest.phase = "active" /\ bgest.site = "brush" /\ ev.type \in {"mousedown", "touchstart"}
    /\ bTimeRange # Null /\ bTimeRange.b < viewport(bScale)[1]
    /\ renderBrush(bScale, bTimeRange).x = 0

(***************************************************************************)
(* Pinch suppression of the Brush                                          *)
(***************************************************************************)
\* the last event was a finger put on the mounted Brush
BrushTouched == ev.type = "touchstart" /\ bPhase = "mounted" /\ bTouch

\* C21: the touch handlers of the Brush are suppressed exactly while
\* isPinchZooming is true: a touch-start with isPinchZooming true starts
\* nothing, and a touch-start with isPinchZooming false or not supplied
\* starts the brush gesture of the element touched
C21_TouchSuppressedOnlyWhilePinching ==
    BrushTouched =>
        IF bprops.isPinchZooming = Bool(TRUE)
        THEN ~brush.isBrushing
        ELSE /\ brush.isBrushing
             /\ brush.brushingInitializationSite =
                    Str(HitTest(bScale, bTimeRange, ev.x.v - OffsetLeft))

\* what the code does: a touch-start starts a gesture only if isPinchZooming
\* is the boolean false
TouchStartsGestureOnlyIfFalse ==
    BrushTouched => (brush.isBrushing <=> bprops.isPinchZooming = Bool(FALSE))

(***************************************************************************)
(* Handle and body drags of the Brush                                      *)
(***************************************************************************)
\* C22: every range a handle-left drag emits has the initial end time as
\* one of its two endpoints, and every range a handle-right drag emits has
\* the initial begin time as one of its two endpoints
C22_HandleDragPinsOppositeEdge ==
    BrushDragged => \A i \in RangeCalls :
        /\ brush.brushingInitializationSite = Str("handle-left") =>
              brush.initialBrushEndTime.v \in {calls[i].begin, calls[i].end}
        /\ brush.brushingInitializationSite = Str("handle-right") =>
              brush.initialBrushBeginTime.v \in {calls[i].begin, calls[i].end}

\* the right handle dragged to another time: the begin stays, the end moved
C22_Witness ==
    /\ BrushDragged
    /\ brush.brushingInitializationSite = Str("handle-right")
    /\ \E i \in RangeCalls :
        /\ calls[i].begin = brush.initialBrushBeginTime.v
        /\ calls[i].end # brush.initialBrushEndTime.v

\* the last event was a move of a brush-body drag
BodyDragged == BrushDragged /\ brush.brushingInitializationSite = Str("brush")

\* C23: a brush-body drag emits the initial range shifted by the cursor's
\* time offset when neither shifted edge crosses a viewport bound; when one
\* shifted edge crosses its bound, that edge of the emitted range is the
\* bound and the other edge is the initial one shifted by the full offset
C23_BodyDragTranslation ==
    BodyDragged => \A i \in RangeCalls :
        LET vp == viewport(bScale)
        IN  /\ (RawBegin >= vp[1] /\ RawEnd <= vp[2]) =>
                  (calls[i].begin = RawBegin /\ calls[i].end = RawEnd)
            /\ (RawBegin < vp[1] /\ RawEnd <= vp[2]) =>
                  (calls[i].begin = vp[1] /\ calls[i].end = RawEnd)
            /\ (RawBegin >= vp[1] /\ RawEnd > vp[2]) =>
                  (calls[i].begin = RawBegin /\ calls[i].end = vp[2])

\* what the code does: the clamped edges are as C23 says before the swap,
\* so C23 holds of every range whose clamped edges are in order
BodyDragTranslationUnlessSwapped ==
    BodyDragged => \A i \in RangeCalls :
        LET vp == viewport(bScale)
            newBegin == IF RawBegin < vp[1] THEN vp[1] ELSE RawBegin
            newEnd == IF RawEnd > vp[2] THEN vp[2] ELSE RawEnd
        IN  IF newBegin <= newEnd
            THEN calls[i].begin = newBegin /\ calls[i].end = newEnd
            ELSE calls[i].begin = newEnd /\ calls[i].end = newBegin

(***************************************************************************)
(* Wheel and malformed move events of EventHandler                         *)
(***************************************************************************)
\* C24: a wheel event invokes onZoom never if enablePanZoom and
\* enableDragZoom are both false and exactly once if either is true, and in
\* every state it leaves this.state, previousDiff and the listeners on
\* document and on the element as they were
C24_WheelGatedAndStateless ==
    [][ev'.type = "wheel" =>
        /\ Count(calls', "onZoom") =
              (IF props.enablePanZoom \/ props.enableDragZoom THEN 1 ELSE 0)
        /\ eh' = eh
        /\ ehDoc' = ehDoc
        /\ ehEl' = ehEl]_vars

\* a wheel event in the middle of a mouse pan: it zoomed, the pan goes on
C24_Witness ==
    /\ ev.type = "wheel"
    /\ ZoomCalls # {}
    /\ eh.isPanning
    /\ ehDoc # {}

\* C25: a move event whose pageX or pageY is undefined invokes no callback
\* and changes neither this.state nor the listeners, in every state
C25_MalformedMoveIgnored ==
    [][(ev'.type = "mousemove" /\ ev'.x = Undef) =>
        /\ calls' = <<>>
        /\ eh' = eh
        /\ ehDoc' = ehDoc
        /\ ehEl' = ehEl]_vars

\* a move without coordinates in the middle of a pan or of a drag-zoom
C25_Witness ==
    /\ ev.type = "mousemove"
    /\ ev.x = Undef
    /\ eh.isPanning \/ Truthy(eh.isDragging)
    /\ gest.phase = "active"

(***************************************************************************)
(* Pinch of EventHandler                                                   *)
(***************************************************************************)
\* the last event was a move of the one touch that is left of a pinch
MovedAfterPinch ==
    /\ ev.type = "touchmove"
    /\ "touchmove" \in ehEl
    /\ Len(touches) = 1
    /\ gest.phase = "active"
    /\ gest.pinched

\* C26: with enablePanZoom, a move of the single touch that remains after
\* a pinch is handled as a pan: the component is panning and the move
\* emits onZoom
C26_PinchToPanHandover ==
    (MovedAfterPinch /\ props.enablePanZoom) => (eh.isPanning /\ ZoomCalls # {})

\* what the code does: the remaining touch is not panning, its moves go to
\* onMouseMove and never to onZoom
NoPanAfterPinch ==
    MovedAfterPinch =>
        (~eh.isPanning /\ ZoomCalls = {} /\ Count(calls, "onMouseMove") = 1)

\* C27: previousDiff is -1 whenever fewer than two touches are down, and
\* the first move of every pinch (the first move since the touch count rose
\* to two) invokes no onZoom and only records the distance of the first
\* two touches
C27_PinchDistanceSentinel ==
    /\ [](Len(touches) < 2 => eh.previousDiff = -1)
    /\ [][(/\ ev'.type = "touchmove"
           /\ "touchmove" \in ehEl
           /\ Len(touches') >= 2
           /\ ~gest.pinchMoved) =>
            /\ Count(calls', "onZoom") = 0
            /\ eh' = [eh EXCEPT !.previousDiff = Abs(touches'[1] - touches'[2])]]_vars

\* the first move of a pinch: a distance is recorded and nothing was called
C27_Witness ==
    /\ ev.type = "touchmove"
    /\ "touchmove" \in ehEl
    /\ Len(touches) = 2
    /\ gest.pinchMoved
    /\ calls = <<>>
    /\ eh.previousDiff > 0

(***************************************************************************)
(* Emissions of the Brush                                                  *)
(***************************************************************************)
\* C28: every range the Brush passes to onTimeRangeChanged, from a gesture
\* started on the overlay, on the brush or on a handle, has begin <= end,
\* also when the time scale changed after the press
C28_BrushRangesOrdered ==
    \A i \in RangeCalls : calls[i].begin <= calls[i].end

\* what the code does: a range of an overlay drag is ordered if the anchor
\* lies within the viewport of the move
OverlayRangesOrderedIfAnchorInViewport ==
    (/\ OverlayDragged
     /\ viewport(bScale)[1] <= brush.initialBrushBeginTime.v
     /\ brush.initialBrushBeginTime.v <= viewport(bScale)[2]) =>
        \A i \in RangeCalls : calls[i].begin <= calls[i].end

(***************************************************************************)
(* Moves outside a gesture, releases                                       *)
(***************************************************************************)
\* the last event was a move of the pointer
Moved == ev.type \in {"mousemove", "mouseover", "touchmove"}

C30_EndCallbacksOnce ==
    /\ Released =>
          (Count(calls, "onMouseClick") <= 1 /\ Count(calls, "onZoom") <= 1)
    /\ (gest.phase = "active" /\ ~gest.pinched) => ClickCalls = {}

\* a touch-end that the element's listener handled, with the document's
\* listeners of the press released: one click
C30_Witness ==
    /\ Released
    /\ ev.type = "touchend"
    /\ gest.via = "touch"
    /\ "touchend" \in ehEl
    /\ ehDoc = {}
    /\ Count(calls, "onMouseClick") = 1

\* a mouse-up that ends a drag-zoom: one onZoom
DragZoomOnce_Witness ==
    /\ DragZoomReleased
    /\ ev.type = "mouseup"
    /\ ~props.enablePanZoom
    /\ Count(calls, "onZoom") = 1
    /\ ClickCalls = {}

=============================================================================
